---- MODULE Spec2Model ----
(***************************************************************************)
(* ACL resolution engine of lfgw (cmd/lfgw/acl.go).                        *)
(*                                                                         *)
(* A Go string is modelled as a sequence of one-character strings, so that *)
(* splitting, trimming and joining are computed character by character.    *)
(*                                                                         *)
(* Two specifications:                                                     *)
(*   SpecCompile  toSlice and PrepareACL applied to every raw pattern      *)
(*                string of RawInputs;                                     *)
(*   Spec         main: loadACL builds the ACLMap entry by entry in any    *)
(*                order, then getACL is called with claim role lists;      *)
(*   SpecHTTP     main as in Spec, then requests pass step by step through *)
(*                oidcModeMiddleware and rewriteRequestMiddleware          *)
(*                (cmd/lfgw/middleware.go).                                *)
(***************************************************************************)
EXTENDS Naturals, Sequences, FiniteSets

VARIABLES
    rawACL,               \* SpecCompile: the argument of toSlice / PrepareACL
    cpc,                  \* SpecCompile: "input" | "sliced" | "prepared" | "reprepared"
    sliced,               \* SpecCompile: result of toSlice(rawACL)
    prepared,             \* SpecCompile: result of PrepareACL(rawACL)
    reprepared,           \* SpecCompile: result of PrepareACL(prepared.acl.RawACL)
    aclYaml,              \* loadACL: the unmarshalled acl.yaml, role -> raw pattern
    assumedRolesEnabled,  \* process-wide flag handed to getACL
    pc,                   \* "load" | "serve" | "fatal" ("off" under SpecCompile)
    pending,              \* loadACL: roles the range loop has not visited yet
    aclMap,               \* loadACL: the ACLMap under construction / app.ACLMap
    loadErr,              \* loadACL: the returned error
    oidcRoles,            \* getACL: argument of the last call
    resolved,             \* getACL: result of the last call ([acl, err]) or NoResult
    hpc,                  \* SpecHTTP: where the request in hand stands ("off" elsewhere)
    request,              \* SpecHTTP: the request r: path, method, GET and POST params
    token,                \* SpecHTTP: what oidcModeMiddleware obtained so far
    ctxACL,               \* SpecHTTP: r.Context().Value(contextKeyACL), or NoACL
    status,               \* SpecHTTP: status code written to w, 0 while none is
    nextCalled,           \* SpecHTTP: oidcModeMiddleware called next.ServeHTTP
    forwarded             \* SpecHTTP: the request rewriteRequestMiddleware handed to
                          \*           next.ServeHTTP, or NoRequest

vars == <<rawACL, cpc, sliced, prepared, reprepared, aclYaml, assumedRolesEnabled,
          pc, pending, aclMap, loadErr, oidcRoles, resolved,
          hpc, request, token, ctxACL, status, nextCalled, forwarded>>

compileVars == <<rawACL, cpc, sliced, prepared, reprepared>>
mainVars == <<aclYaml, assumedRolesEnabled, pc, pending, aclMap, loadErr,
              oidcRoles, resolved>>
httpVars == <<hpc, request, token, ctxACL, status, nextCalled, forwarded>>

(***************************************************************************)
(* Bounds.                                                                 *)
(***************************************************************************)
\* Longest raw pattern string over Alphabet enumerated by SpecCompile.
MaxPatLen == 4
\* Longest raw pattern string over ListAlphabet enumerated by SpecCompile.
MaxLen == 6
\* Longest claim role list handed to getACL.
MaxRoles == 3
\* Characters of the short raw pattern strings: a literal, the separator, white
\* space, the characters of the full-access token, the anchors and brackets.
Alphabet == {"a", ".", "*", "^", "$", "(", ")", "[", "]", ",", " "}
\* Characters of the longer raw pattern strings, enough to write lists of
\* elements: a literal, the separator, white space and the full-access token.
ListAlphabet == {"a", ".", "*", ",", " "}

(***************************************************************************)
(* Go strings package, on sequences of characters.                         *)
(***************************************************************************)
\* unicode.IsSpace, restricted to the ASCII white space characters.
IsSpace(ch) == ch \in {" ", "\t", "\n", "\r", "\f"}

\* strings.ContainsAny(s, chars): chars is given as a set of characters.
ContainsAny(s, chars) == \E i \in 1..Len(s) : s[i] \in chars

\* strings.TrimLeft(s, cutset)
RECURSIVE TrimLeft(_, _)
TrimLeft(s, cutset) ==
    IF s # <<>> /\ Head(s) \in cutset THEN TrimLeft(Tail(s), cutset) ELSE s

\* strings.TrimRight(s, cutset)
RECURSIVE TrimRight(_, _)
TrimRight(s, cutset) ==
    IF s # <<>> /\ s[Len(s)] \in cutset
    THEN TrimRight(SubSeq(s, 1, Len(s) - 1), cutset)
    ELSE s

\* strings.TrimSpace(s)
TrimSpace(s) ==
    LET l == CHOOSE i \in 1..(Len(s) + 1) :
                 /\ \A j \in 1..(i - 1) : IsSpace(s[j])
                 /\ i <= Len(s) => ~IsSpace(s[i])
        r == CHOOSE i \in 0..Len(s) :
                 /\ \A j \in (i + 1)..Len(s) : IsSpace(s[j])
                 /\ i >= 1 => ~IsSpace(s[i])
    IN  IF l > r THEN <<>> ELSE SubSeq(s, l, r)

\* strings.Split(s, sep) for a one-character separator: always at least one
\* piece, the empty string gives one empty piece.
RECURSIVE Split(_, _)
Split(s, sep) ==
    IF \A i \in 1..Len(s) : s[i] # sep
    THEN <<s>>
    ELSE LET k == CHOOSE i \in 1..Len(s) :
                      s[i] = sep /\ \A j \in 1..(i - 1) : s[j] # sep
         IN  <<SubSeq(s, 1, k - 1)>> \o Split(SubSeq(s, k + 1, Len(s)), sep)

\* strings.Join(elems, sep)
RECURSIVE Join(_, _)
Join(elems, sep) ==
    IF elems = <<>> THEN <<>>
    ELSE IF Len(elems) = 1 THEN elems[1]
    ELSE elems[1] \o sep \o Join(Tail(elems), sep)

(***************************************************************************)
(* regexp.Compile (Go regexp/syntax, Perl flags) as far as PrepareACL      *)
(* depends on it: does the pattern parse?  Covered syntax: literals, `.`,  *)
(* `^`, `$`, `*`, `|`, capturing groups and bracket classes of plain       *)
(* characters.  A `*` needs an operand before it (not the start, `(` or    *)
(* `|`) and may not follow another `*`; every `)` closes an open `(` and   *)
(* no `(` stays open; a class runs from `[`, past an optional `^` and one  *)
(* first character (which may be `]`), to the next `]`, which must exist;  *)
(* a `]` outside a class is a literal.                                     *)
(***************************************************************************)
\* Position of the `]` closing the class opened at s[i] = "[", or 0.
ClassEnd(s, i) ==
    LET first == IF i + 1 <= Len(s) /\ s[i + 1] = "^" THEN i + 2 ELSE i + 1
        ends  == {k \in (first + 1)..Len(s) : s[k] = "]"}
    IN  IF ends = {} THEN 0
        ELSE CHOOSE k \in ends : \A m \in ends : k <= m

RECURSIVE ParseRegexp(_, _, _, _)
ParseRegexp(s, i, depth, prev) ==
    IF i > Len(s) THEN depth = 0
    ELSE LET ch == s[i] IN
         CASE ch = "(" -> ParseRegexp(s, i + 1, depth + 1, "(")
           [] ch = ")" -> depth > 0 /\ ParseRegexp(s, i + 1, depth - 1, ")")
           [] ch = "*" -> prev \notin {"", "(", "|", "*"}
                          /\ ParseRegexp(s, i + 1, depth, "*")
           [] ch = "[" -> ClassEnd(s, i) # 0
                          /\ ParseRegexp(s, ClassEnd(s, i) + 1, depth, "]")
           [] OTHER    -> ParseRegexp(s, i + 1, depth, ch)

regexpCompiles(expr) == ParseRegexp(expr, 1, 0, "")

(***************************************************************************)
(* ACL values.                                                             *)
(***************************************************************************)
ErrNil == "nil"

\* metricsql.LabelFilter / ACL zero values (ACL{}).
ZeroACL ==
    [Fullaccess  |-> FALSE,
     LabelFilter |-> [Label |-> "", Value |-> <<>>, IsRegexp |-> FALSE,
                      IsNegative |-> FALSE],
     RawACL      |-> <<>>]

FullaccessToken == <<".", "*">>

getFullaccessACL ==
    [Fullaccess  |-> TRUE,
     LabelFilter |-> [Label |-> "namespace", Value |-> FullaccessToken,
                      IsRegexp |-> TRUE, IsNegative |-> FALSE],
     RawACL      |-> FullaccessToken]

(***************************************************************************)
(* toSlice                                                                 *)
(***************************************************************************)
\* The pieces of str, each trimmed (the loop variable s after TrimSpace).
TrimmedPieces(str) ==
    LET pieces == Split(str, ",")
    IN  [i \in 1..Len(pieces) |-> TrimSpace(pieces[i])]

\* toSlice without the `if s != ""` test: empty pieces are appended too.
KeepEmptyPieces(pieces) == pieces

RECURSIVE NonEmptyOnly(_)
NonEmptyOnly(pieces) ==
    IF pieces = <<>> THEN <<>>
    ELSE IF Head(pieces) # <<>> THEN <<Head(pieces)>> \o NonEmptyOnly(Tail(pieces))
    ELSE NonEmptyOnly(Tail(pieces))

toSlice(str) ==
    LET trimmed == TrimmedPieces(str)
        buffer  == NonEmptyOnly(trimmed)
    IN  IF \E i \in 1..Len(trimmed) : \E j \in 1..Len(trimmed[i]) : IsSpace(trimmed[i][j])
        THEN [buffer |-> <<>>, err |-> "spaces within elements"]
        ELSE IF Len(buffer) = 0
        THEN [buffer |-> <<>>, err |-> "no valid element"]
        ELSE [buffer |-> buffer, err |-> ErrNil]

(***************************************************************************)
(* PrepareACL                                                              *)
(***************************************************************************)
RegexpMeta == {".", "+", "*", "?", "^", "$", "(", ")", "[", "]", "{", "}", "|", "\\"}

\* The four trims applied to a single regexp element (acl.go 153-156).
TrimAnchors(e) ==
    TrimRight(TrimRight(TrimLeft(TrimLeft(e, {"^"}), {"("}), {"$"}), {")"})

\* buffer after the single-element branch has (possibly) rewritten buffer[0].
NormalizedBuffer(buffer) ==
    IF Len(buffer) = 1 /\ ContainsAny(buffer[1], RegexpMeta)
    THEN <<TrimAnchors(buffer[1])>>
    ELSE buffer

\* The full-access test applied after the regexp elements were validated:
\* the token only absorbs elements that compile.
FullaccessAmongValidElements(buffer) ==
    /\ \E i \in 1..Len(buffer) : buffer[i] = FullaccessToken
    /\ \A i \in 1..Len(buffer) : regexpCompiles(buffer[i])

\* The loop over buffer looking for the full-access element (acl.go 140-146).
HasFullaccessElement(buffer) ==
    \E i \in 1..Len(buffer) : buffer[i] = FullaccessToken

PrepareACL(raw) ==
    LET ts == toSlice(raw) IN
    IF ts.err # ErrNil THEN [acl |-> ZeroACL, err |-> ts.err]
    ELSE IF HasFullaccessElement(ts.buffer)
    THEN [acl |-> getFullaccessACL, err |-> ErrNil]
    ELSE
      LET buffer   == NormalizedBuffer(ts.buffer)
          isRegexp == IF Len(ts.buffer) = 1
                      THEN ContainsAny(ts.buffer[1], RegexpMeta)
                      ELSE TRUE
          value    == IF Len(buffer) = 1 THEN buffer[1] ELSE Join(buffer, <<"|">>)
      IN  IF isRegexp /\ ~regexpCompiles(value)
          THEN [acl |-> ZeroACL, err |-> "regexp"]
          ELSE [acl |-> [Fullaccess  |-> FALSE,
                         LabelFilter |-> [Label |-> "namespace", Value |-> value,
                                          IsRegexp |-> isRegexp, IsNegative |-> FALSE],
                         RawACL      |-> Join(buffer, <<",", " ">>)],
                err |-> ErrNil]

(***************************************************************************)
(* SpecCompile: the parser and the compiler on every bounded raw string.   *)
(***************************************************************************)
\* The strings over chars of length n or less.
StringsUpTo(chars, n) == UNION {[1..k -> chars] : k \in 0..n}

\* The raw pattern strings SpecCompile starts from.
RawInputs == StringsUpTo(Alphabet, MaxPatLen) \cup StringsUpTo(ListAlphabet, MaxLen)

NoResult == [err |-> "not called"]
NoACL == [set |-> FALSE]
NoRequest == [sent |-> FALSE]
NoToken == [rawAccessToken |-> FALSE, accessToken |-> FALSE, claims |-> FALSE]

\* No request in hand.
HTTPIdle(at) ==
    /\ hpc = at
    /\ request = NoRequest
    /\ token = NoToken
    /\ ctxACL = NoACL
    /\ status = 0
    /\ nextCalled = FALSE
    /\ forwarded = NoRequest

MainIdle ==
    /\ aclYaml = <<>>
    /\ assumedRolesEnabled = FALSE
    /\ pc = "off"
    /\ pending = {}
    /\ aclMap = <<>>
    /\ loadErr = ErrNil
    /\ oidcRoles = <<>>
    /\ resolved = NoResult

InitCompile ==
    /\ rawACL \in RawInputs
    /\ cpc = "input"
    /\ sliced = NoResult
    /\ prepared = NoResult
    /\ reprepared = NoResult
    /\ MainIdle
    /\ HTTPIdle("off")

\* acl.toSlice(rawACL)
CallToSlice ==
    /\ cpc = "input"
    /\ sliced' = toSlice(rawACL)
    /\ cpc' = "sliced"
    /\ UNCHANGED <<rawACL, prepared, reprepared, mainVars, httpVars>>

\* acl.PrepareACL(rawACL)
CallPrepareACL ==
    /\ cpc = "input"
    /\ prepared' = PrepareACL(rawACL)
    /\ cpc' = "prepared"
    /\ UNCHANGED <<rawACL, sliced, reprepared, mainVars, httpVars>>

\* acl.PrepareACL(got.RawACL) on the RawACL of a successful PrepareACL
CallPrepareACLAgain ==
    /\ cpc = "prepared"
    /\ prepared.err = ErrNil
    /\ reprepared' = PrepareACL(prepared.acl.RawACL)
    /\ cpc' = "reprepared"
    /\ UNCHANGED <<rawACL, sliced, prepared, mainVars, httpVars>>

NextCompile == CallToSlice \/ CallPrepareACL \/ CallPrepareACLAgain

SpecCompile == InitCompile /\ [][NextCompile]_vars

(***************************************************************************)
(* Properties of the parser and the compiler (SpecCompile).                *)
(***************************************************************************)
\* Some piece of s between two separators has white space between two of its
\* other characters ("a b").
InnerSpace(s) ==
    \E i \in 1..Len(s) : \E j \in (i + 1)..Len(s) : \E k \in (j + 1)..Len(s) :
        /\ IsSpace(s[j]) /\ ~IsSpace(s[i]) /\ ~IsSpace(s[k])
        /\ \A m \in i..k : s[m] # ","

\* s holds nothing but separators and white space ("", ",", " , ").
OnlySeparators(s) == \A i \in 1..Len(s) : s[i] = "," \/ IsSpace(s[i])

\* s[i], s[i+1] is a `.*` that stands alone, up to white space, between two
\* separators or ends of s.
FullaccessElementAt(s, i) ==
    /\ i + 1 <= Len(s) /\ s[i] = "." /\ s[i + 1] = "*"
    /\ \E l \in 0..(i - 1) :
           /\ l = 0 \/ s[l] = ","
           /\ \A j \in (l + 1)..(i - 1) : IsSpace(s[j])
    /\ \E r \in (i + 2)..(Len(s) + 1) :
           /\ r = Len(s) + 1 \/ s[r] = ","
           /\ \A j \in (i + 2)..(r - 1) : IsSpace(s[j])

ListsFullaccessElement(s) == \E i \in 1..Len(s) : FullaccessElementAt(s, i)

\* s without its white space, without leading, trailing and doubled separators.
RECURSIVE Squeeze(_, _)
Squeeze(s, atStart) ==
    IF s = <<>> THEN <<>>
    ELSE IF IsSpace(Head(s)) THEN Squeeze(Tail(s), atStart)
    ELSE IF Head(s) = ","
         THEN IF atStart \/ OnlySeparators(Tail(s)) \/
                 (LET rest == SelectSeq(Tail(s), LAMBDA c : ~IsSpace(c))
                  IN  rest # <<>> /\ Head(rest) = ",")
              THEN Squeeze(Tail(s), atStart)
              ELSE <<",">> \o Squeeze(Tail(s), FALSE)
    ELSE <<Head(s)>> \o Squeeze(Tail(s), FALSE)

CanonicalFullaccess(acl) ==
    /\ acl.Fullaccess = TRUE
    /\ acl.LabelFilter = [Label |-> "namespace", Value |-> <<".", "*">>,
                          IsRegexp |-> TRUE, IsNegative |-> FALSE]
    /\ acl.RawACL = <<".", "*">>

\* C1 as stated: every raw pattern whose comma-separated elements include `.*`
\* compiles to the canonical full-access ACL without error, whatever the other
\* elements are, internal white space included.
C1_AbsorptionAnyElements ==
    (cpc = "prepared" /\ ListsFullaccessElement(rawACL))
        => (prepared.err = ErrNil /\ CanonicalFullaccess(prepared.acl))

\* C1 amended: every raw pattern whose elements include `.*` and none of whose
\* pieces has white space inside it compiles to the canonical full-access ACL
\* without error, also when other elements would not compile as a regexp.
C1_Absorption ==
    (cpc = "prepared" /\ ListsFullaccessElement(rawACL) /\ ~InnerSpace(rawACL))
        => (prepared.err = ErrNil /\ CanonicalFullaccess(prepared.acl))

\* `**` does not compile, and is absorbed by the `.*` after it.
C1_Witness ==
    /\ cpc = "prepared"
    /\ rawACL = <<"*", "*", ",", ".", "*">>
    /\ ~regexpCompiles(<<"*", "*">>)
    /\ prepared.err = ErrNil
    /\ prepared.acl.Fullaccess

\* C2: an ACL returned without error by PrepareACL has Fullaccess = TRUE if and
\* only if its filter is {namespace, ".*", regexp, not negative} and its RawACL
\* is ".*".
C2_CanonicalFullaccess ==
    (cpc = "prepared" /\ prepared.err = ErrNil)
        => (prepared.acl.Fullaccess <=>
              (/\ prepared.acl.LabelFilter =
                      [Label |-> "namespace", Value |-> <<".", "*">>,
                       IsRegexp |-> TRUE, IsNegative |-> FALSE]
               /\ prepared.acl.RawACL = <<".", "*">>))

\* C3: compiling the RawACL of a successfully compiled pattern succeeds and
\* gives the same ACL in every field.
C3_Idempotence ==
    cpc = "reprepared" => reprepared = prepared

\* C9: toSlice fails with no elements when a piece has white space inside it or
\* when no non-empty piece remains, and PrepareACL then fails with the zero
\* ACL; otherwise toSlice returns the trimmed non-empty pieces in input order:
\* a non-empty sequence of non-empty elements free of white space and
\* separators which, joined by separators, spell the input without its white
\* space and its empty pieces.
C9_ToSliceValidation ==
    /\ cpc = "sliced" =>
         IF InnerSpace(rawACL) \/ OnlySeparators(rawACL)
         THEN sliced.err # ErrNil /\ sliced.buffer = <<>>
         ELSE /\ sliced.err = ErrNil
              /\ sliced.buffer # <<>>
              /\ \A i \in 1..Len(sliced.buffer) :
                     /\ sliced.buffer[i] # <<>>
                     /\ \A j \in 1..Len(sliced.buffer[i]) :
                            ~IsSpace(sliced.buffer[i][j]) /\ sliced.buffer[i][j] # ","
              /\ Join(sliced.buffer, <<",">>) = Squeeze(rawACL, TRUE)
    /\ (cpc = "prepared" /\ (InnerSpace(rawACL) \/ OnlySeparators(rawACL)))
         => (prepared.err # ErrNil /\ prepared.acl = ZeroACL)

\* An empty piece between two elements is dropped and the rest trimmed.
C9_Witness ==
    /\ cpc = "sliced"
    /\ rawACL = <<"a", ",", " ", ",", " ", "*">>
    /\ sliced = [buffer |-> <<<<"a">>, <<"*">>>>, err |-> ErrNil]


(***************************************************************************)
(* ACLMap: rolesToRawACL and getACL.  An ACLMap is a function from role    *)
(* names to ACL values; a role name is a string like any other.            *)
(***************************************************************************)
EmptyMap == [role \in {} |-> ZeroACL]

\* The roles of `roles` that are keys of a, in order / the others, in order.
KnownRoles(a, roles) == SelectSeq(roles, LAMBDA role : role \in DOMAIN a)
UnknownRoles(a, roles) == SelectSeq(roles, LAMBDA role : role \notin DOMAIN a)

\* Only the registry roles contribute a definition: unknown roles are skipped.
rolesToRawACLKnownOnly(a, roles) ==
    LET known   == KnownRoles(a, roles)
        rawACLs == [i \in 1..Len(known) |-> a[known[i]].RawACL]
        joined  == Join(rawACLs, <<",", " ">>)
    IN  IF joined = <<>>
        THEN [rawACL |-> <<>>, err |-> "constructed empty rawACL"]
        ELSE [rawACL |-> joined, err |-> ErrNil]

rolesToRawACL(a, roles) ==
    LET rawACLs == [i \in 1..Len(roles) |->
                       IF roles[i] \in DOMAIN a THEN a[roles[i]].RawACL ELSE roles[i]]
        joined  == Join(rawACLs, <<",", " ">>)
    IN  IF \E i \in 1..Len(roles) : roles[i] \in DOMAIN a /\ a[roles[i]].RawACL = <<>>
        THEN [rawACL |-> <<>>, err |-> "role contains empty rawACL"]
        ELSE IF joined = <<>>
        THEN [rawACL |-> <<>>, err |-> "constructed empty rawACL"]
        ELSE [rawACL |-> joined, err |-> ErrNil]

\* The first loop of getACL only inspects the first claim role for full access.
FullaccessFirstRoleOnly(a, roles) ==
    IF roles # <<>> /\ roles[1] \in DOMAIN a /\ a[roles[1]].Fullaccess THEN 1 ELSE 0

\* Index of the first claim role that is a full-access role of a, or 0: where
\* the first loop of getACL returns (acl.go 48-53).
FirstFullaccessRole(a, roles) ==
    LET hits == {i \in 1..Len(roles) : roles[i] \in DOMAIN a /\ a[roles[i]].Fullaccess}
    IN  IF hits = {} THEN 0 ELSE CHOOSE i \in hits : \A j \in hits : i <= j

\* The assumed roles are appended whatever the flag says.
WorkingRolesAlwaysAssumed(a, roles, assumed) ==
    KnownRoles(a, roles) \o UnknownRoles(a, roles)

\* `roles` of getACL after the loop and the append (acl.go 54-62).
WorkingRoles(a, roles, assumed) ==
    KnownRoles(a, roles) \o (IF assumed THEN UnknownRoles(a, roles) ELSE <<>>)

\* The prebuilt ACL is never used: a single known role is recompiled.
NoPrebuiltACL(a, roles) == FALSE

\* The test guarding the return of a prebuilt ACL (acl.go 69-75).
SingleKnownRole(a, roles) == Len(roles) = 1 /\ roles[1] \in DOMAIN a

getACL(a, claimRoles, assumed) ==
    LET full  == FirstFullaccessRole(a, claimRoles)
        roles == WorkingRoles(a, claimRoles, assumed)
        raw   == rolesToRawACL(a, roles)
    IN  IF full # 0 THEN [acl |-> a[claimRoles[full]], err |-> ErrNil]
        ELSE IF Len(roles) = 0 THEN [acl |-> ZeroACL, err |-> "no matching roles found"]
        ELSE IF SingleKnownRole(a, roles) THEN [acl |-> a[roles[1]], err |-> ErrNil]
        ELSE IF raw.err # ErrNil THEN [acl |-> ZeroACL, err |-> raw.err]
        ELSE PrepareACL(raw.rawACL)

(***************************************************************************)
(* Spec: main.  loadACL compiles the entries of acl.yaml in the order the  *)
(* range over the map yields them, which is any order; main stops on an    *)
(* error and serves otherwise, calling getACL for each request's roles.    *)
(***************************************************************************)
\* Role names acl.yaml may define.
ConfigRoles == {<<"r">>, <<"s">>}

\* Raw patterns acl.yaml may give a role: full access, a literal, an anchored
\* literal, an anchored full-access token, a lone anchor, a list, an implicit
\* full access and a pattern with a space inside an element.
ConfigPatterns ==
    { <<".", "*">>,
      <<"a">>,
      <<"^", "a", "$">>,
      <<"^", ".", "*", "$">>,
      <<"^">>,
      <<"a", ",", "b", ".", "*">>,
      <<"b", ",", " ", ".", "*">>,
      <<"a", " ", "b">> }

\* Role names a claim may carry besides the configured ones: two plain names,
\* the full-access token, a name with a space, a name with an open group and
\* a name with a comma.
OtherRoles ==
    { <<"u">>, <<"v">>, <<".", "*">>, <<"u", " ", "v">>, <<"(", "u">>, <<"u", ",", "v">> }

ClaimRoles == ConfigRoles \cup OtherRoles

\* The lists over S of length n or less.
ListsUpTo(S, n) == UNION {[1..k -> S] : k \in 0..n}

CompileIdle ==
    /\ rawACL = <<>>
    /\ cpc = "off"
    /\ sliced = NoResult
    /\ prepared = NoResult
    /\ reprepared = NoResult

Init ==
    /\ \E roles \in SUBSET ConfigRoles : aclYaml \in [roles -> ConfigPatterns]
    /\ assumedRolesEnabled \in BOOLEAN
    /\ pc = "load"
    /\ pending = DOMAIN aclYaml
    /\ aclMap = EmptyMap
    /\ loadErr = ErrNil
    /\ oidcRoles = <<>>
    /\ resolved = NoResult
    /\ CompileIdle
    /\ HTTPIdle("off")

\* The map loadACL returns along with the error of a PrepareACL: the entries
\* compiled so far are kept.
ReturnPartialMap(m) == m

\* The map loadACL returns along with the error of a PrepareACL (acl.go 215).
MapOnCompileError(m) == EmptyMap

\* os.ReadFile or yaml.Unmarshal fails: the still empty map and the error.
LoadReadError ==
    /\ pc = "load"
    /\ pending = DOMAIN aclYaml
    /\ loadErr' = "read"
    /\ pc' = "fatal"
    /\ UNCHANGED <<aclYaml, assumedRolesEnabled, pending, aclMap, oidcRoles, resolved,
                   compileVars, httpVars>>

\* One iteration of the range loop of loadACL, on any entry not visited yet.
LoadEntry ==
    /\ pc = "load"
    /\ \E role \in pending :
         LET got == PrepareACL(aclYaml[role]) IN
         IF got.err # ErrNil
         THEN /\ aclMap' = MapOnCompileError(aclMap)
              /\ loadErr' = got.err
              /\ pc' = "fatal"
              /\ UNCHANGED pending
         ELSE /\ aclMap' = [r \in DOMAIN aclMap \cup {role} |->
                               IF r = role THEN got.acl ELSE aclMap[r]]
              /\ pending' = pending \ {role}
              /\ UNCHANGED <<loadErr, pc>>
    /\ UNCHANGED <<aclYaml, assumedRolesEnabled, oidcRoles, resolved, compileVars, httpVars>>

\* The loop is over: loadACL returns the map, main keeps it as app.ACLMap.
LoadReturn ==
    /\ pc = "load"
    /\ pending = {}
    /\ pc' = "serve"
    /\ UNCHANGED <<aclYaml, assumedRolesEnabled, pending, aclMap, loadErr, oidcRoles,
                   resolved, compileVars, httpVars>>

\* app.ACLMap.getACL(roles, app.AssumedRolesEnabled) for one request.
CallGetACL ==
    /\ pc = "serve"
    /\ resolved = NoResult
    /\ \E roles \in ListsUpTo(ClaimRoles, MaxRoles) :
         /\ oidcRoles' = roles
         /\ resolved' = getACL(aclMap, roles, assumedRolesEnabled)
    /\ UNCHANGED <<aclYaml, assumedRolesEnabled, pc, pending, aclMap, loadErr,
                   compileVars, httpVars>>

\* The request completes: its roles and its ACL are dropped with it.
RequestDone ==
    /\ pc = "serve"
    /\ resolved # NoResult
    /\ oidcRoles' = <<>>
    /\ resolved' = NoResult
    /\ UNCHANGED <<aclYaml, assumedRolesEnabled, pc, pending, aclMap, loadErr,
                   compileVars, httpVars>>

Next == LoadReadError \/ LoadEntry \/ LoadReturn \/ CallGetACL \/ RequestDone

Spec == Init /\ [][Next]_vars

(***************************************************************************)
(* Properties of the registry and the resolver (Spec).                     *)
(***************************************************************************)
\* getACL has returned for the request in hand.
Resolved == pc = "serve" /\ resolved # NoResult

IsKnown(role) == role \in DOMAIN aclMap
IsFullaccessRole(role) == IsKnown(role) /\ aclMap[role].Fullaccess

ListsFullaccessRole == \E i \in 1..Len(oidcRoles) : IsFullaccessRole(oidcRoles[i])

\* The working list written out: the known claim roles in input order, then,
\* if assumed roles are enabled, the unknown ones in input order.
RECURSIVE Pick(_, _)
Pick(roles, known) ==
    IF roles = <<>> THEN <<>>
    ELSE IF IsKnown(Head(roles)) = known THEN <<Head(roles)>> \o Pick(Tail(roles), known)
    ELSE Pick(Tail(roles), known)

WorkingList ==
    IF assumedRolesEnabled THEN Pick(oidcRoles, TRUE) \o Pick(oidcRoles, FALSE)
    ELSE Pick(oidcRoles, TRUE)

\* C4: a claim list naming a full-access registry role resolves without error
\* to the stored ACL of such a role, a full-access one, wherever the role
\* stands and whatever stands around it, with assumed roles on or off.
C4_FullaccessShortCircuit ==
    (Resolved /\ ListsFullaccessRole)
        => /\ resolved.err = ErrNil
           /\ resolved.acl.Fullaccess
           /\ \E i \in 1..Len(oidcRoles) :
                  IsFullaccessRole(oidcRoles[i]) /\ resolved.acl = aclMap[oidcRoles[i]]

\* The full-access role comes last, after a malformed unknown name that would
\* not compile, with assumed roles enabled.
C4_Witness ==
    /\ Resolved
    /\ assumedRolesEnabled
    /\ Len(oidcRoles) = MaxRoles
    /\ oidcRoles[1] = <<"u", " ", "v">>
    /\ IsKnown(oidcRoles[2]) /\ ~IsFullaccessRole(oidcRoles[2])
    /\ IsFullaccessRole(oidcRoles[MaxRoles])
    /\ resolved.err = ErrNil
    /\ resolved.acl.Fullaccess

\* oidcRoles without its i-th entry.
WithoutRole(i) == SubSeq(oidcRoles, 1, i - 1) \o SubSeq(oidcRoles, i + 1, Len(oidcRoles))

\* C5: a claim list resolves as the list without one of its repeated roles
\* does: both fail, or both succeed with the same ACL.
C5_DuplicateTolerance ==
    Resolved =>
        \A i \in 1..Len(oidcRoles) :
            (\E j \in 1..Len(oidcRoles) : j # i /\ oidcRoles[j] = oidcRoles[i])
                => LET once == getACL(aclMap, WithoutRole(i), assumedRolesEnabled)
                   IN  /\ (once.err = ErrNil) <=> (resolved.err = ErrNil)
                       /\ once.acl = resolved.acl

\* C6: when the working list is one known role that is not a full-access role
\* (the claim list is that role alone, or assumed roles are disabled and no
\* other listed role is known), getACL returns the stored ACL of the role.
C6_SingleRoleFastPath ==
    \A i \in 1..Len(oidcRoles) :
        ( /\ Resolved
          /\ IsKnown(oidcRoles[i]) /\ ~aclMap[oidcRoles[i]].Fullaccess
          /\ \A j \in 1..Len(oidcRoles) : j # i => ~IsKnown(oidcRoles[j])
          /\ Len(oidcRoles) = 1 \/ ~assumedRolesEnabled )
            => resolved = [acl |-> aclMap[oidcRoles[i]], err |-> ErrNil]

\* The stored ACL is returned although compiling its RawACL again would give
\* another ACL: the role was configured as `^a$`.
C6_Witness ==
    /\ Resolved
    /\ ~assumedRolesEnabled
    /\ Len(oidcRoles) = 2
    /\ ~IsKnown(oidcRoles[1])
    /\ IsKnown(oidcRoles[2])
    /\ aclYaml[oidcRoles[2]] = <<"^", "a", "$">>
    /\ resolved = [acl |-> aclMap[oidcRoles[2]], err |-> ErrNil]
    /\ PrepareACL(aclMap[oidcRoles[2]].RawACL).acl # resolved.acl

\* C7: with no full-access registry role listed and a working list that is not
\* one known role, getACL gives what PrepareACL gives on the contributions of
\* the working list joined by ", ": the stored RawACL of a known role, the
\* name of an unknown one.
C7_CompositeIsPrepareACL ==
    (Resolved /\ ~ListsFullaccessRole
              /\ ~(Len(WorkingList) = 1 /\ IsKnown(WorkingList[1])))
        => LET contributions ==
                   [i \in 1..Len(WorkingList) |->
                       IF IsKnown(WorkingList[i]) THEN aclMap[WorkingList[i]].RawACL
                       ELSE WorkingList[i]]
               compiled == PrepareACL(Join(contributions, <<",", " ">>))
           IN  /\ (resolved.err = ErrNil) <=> (compiled.err = ErrNil)
               /\ resolved.acl = compiled.acl

\* C8: getACL fails with "no matching roles found" and the zero ACL exactly
\* when the claim list is empty or names no registry role while assumed roles
\* are disabled.
C8_NoMatchingRoles ==
    Resolved =>
        LET nothingUsable ==
                \/ oidcRoles = <<>>
                \/ ~assumedRolesEnabled /\ \A i \in 1..Len(oidcRoles) : ~IsKnown(oidcRoles[i])
        IN  /\ nothingUsable => resolved = [acl |-> ZeroACL, err |-> "no matching roles found"]
            /\ resolved.err = "no matching roles found" => nothingUsable

\* Unknown roles only, assumed roles disabled, a non-empty registry.
C8_Witness ==
    /\ Resolved
    /\ ~assumedRolesEnabled
    /\ DOMAIN aclMap # {}
    /\ Len(oidcRoles) = 2
    /\ resolved = [acl |-> ZeroACL, err |-> "no matching roles found"]

\* A raw pattern of acl.yaml that PrepareACL rejects.
Rejected(raw) == PrepareACL(raw).err # ErrNil

\* C10: loadACL returns an error and an empty registry when the pattern of a
\* configured role fails to compile, in whatever order the entries are visited
\* and however many compiled before; when it returns without error the
\* registry has one entry per configured role, the compiled pattern of the role.
C10_FailFastLoad ==
    /\ pc = "fatal" => (loadErr # ErrNil /\ aclMap = EmptyMap)
    /\ pc = "serve" =>
          /\ loadErr = ErrNil
          /\ \A role \in DOMAIN aclYaml : ~Rejected(aclYaml[role])
          /\ DOMAIN aclMap = DOMAIN aclYaml
          /\ \A role \in DOMAIN aclYaml : aclMap[role] = PrepareACL(aclYaml[role]).acl
    /\ (pc = "load" /\ pending = {}) => \A role \in DOMAIN aclYaml : ~Rejected(aclYaml[role])

\* The failing entry was visited after another entry had compiled.
C10_Witness ==
    /\ pc = "fatal"
    /\ loadErr = "spaces within elements"
    /\ pending # DOMAIN aclYaml
    /\ aclMap = EmptyMap

(***************************************************************************)
(* SpecHTTP: a request on its way through oidcModeMiddleware and           *)
(* rewriteRequestMiddleware.  The calls that leave the package (the token  *)
(* verifier, r.ParseForm) succeed or fail; each handler step is one action.*)
(***************************************************************************)
StatusUnauthorized == 401
StatusBadRequest == 400
StatusInternalServerError == 500

\* Role names an access token may carry.
TokenRoles == ConfigRoles \cup {<<"u">>}

\* Query parameters as the client sent them.
OriginalParams == [rewritten |-> FALSE]

\* app.prepareQueryParams(params, acl): the parameters with the label filter
\* of acl put into every query expression.
prepareQueryParams(params, acl) == [rewritten |-> TRUE, filter |-> acl.LabelFilter]

InitHTTP ==
    /\ \E roles \in SUBSET ConfigRoles : aclYaml \in [roles -> ConfigPatterns]
    /\ assumedRolesEnabled \in BOOLEAN
    /\ pc = "load"
    /\ pending = DOMAIN aclYaml
    /\ aclMap = EmptyMap
    /\ loadErr = ErrNil
    /\ oidcRoles = <<>>
    /\ resolved = NoResult
    /\ CompileIdle
    /\ HTTPIdle("idle")

\* A request arrives.  The handler chain puts oidcModeMiddleware before
\* rewriteRequestMiddleware; a chain without it hands the request to
\* rewriteRequestMiddleware with no ACL in its context.
ReceiveRequest ==
    /\ pc = "serve"
    /\ hpc = "idle"
    /\ \E path \in {"api", "other"}, method \in {"GET", "POST"},
          entry \in {"oidc", "rewrite"} :
         /\ request' = [sent |-> TRUE, entry |-> entry, path |-> path,
                        method |-> method, get |-> OriginalParams,
                        post |-> OriginalParams]
         /\ hpc' = entry
    /\ UNCHANGED <<token, ctxACL, status, nextCalled, forwarded, mainVars, compileVars>>

\* app.clientErrorMessage(w, http.StatusUnauthorized, err); return
Unauthorized ==
    /\ status' = StatusUnauthorized
    /\ hpc' = "done"
    /\ UNCHANGED <<request, ctxACL, nextCalled, forwarded>>

\* app.getRawAccessToken(r)
GetRawAccessToken ==
    /\ hpc = "oidc"
    /\ \/ /\ token' = [token EXCEPT !.rawAccessToken = TRUE]
          /\ hpc' = "verify"
          /\ UNCHANGED <<request, ctxACL, status, nextCalled, forwarded>>
       \/ Unauthorized /\ UNCHANGED token
    /\ UNCHANGED <<mainVars, compileVars>>

\* app.verifier.Verify(ctx, rawAccessToken)
VerifyToken ==
    /\ hpc = "verify"
    /\ \/ /\ token' = [token EXCEPT !.accessToken = TRUE]
          /\ hpc' = "claims"
          /\ UNCHANGED <<request, ctxACL, status, nextCalled, forwarded>>
       \/ Unauthorized /\ UNCHANGED token
    /\ UNCHANGED <<mainVars, compileVars>>

\* accessToken.Claims(&claims)
ExtractClaims ==
    /\ hpc = "claims"
    /\ \/ /\ \E roles \in ListsUpTo(TokenRoles, MaxRoles) : oidcRoles' = roles
          /\ token' = [token EXCEPT !.claims = TRUE]
          /\ hpc' = "getACL"
          /\ UNCHANGED <<request, ctxACL, status, nextCalled, forwarded>>
       \/ Unauthorized /\ UNCHANGED <<token, oidcRoles>>
    /\ UNCHANGED <<aclYaml, assumedRolesEnabled, pc, pending, aclMap, loadErr, resolved,
                   compileVars>>

\* next.ServeHTTP is called although getACL returned an error.
AuthorizedWhateverTheError(got) == TRUE

\* The `if err != nil` after getACL (middleware.go 146-151) lets the request on.
Authorized(got) == got.err = ErrNil

\* app.getACL(claims.Roles), then the ACL into the context and next.ServeHTTP
AuthorizeRequest ==
    /\ hpc = "getACL"
    /\ LET got == getACL(aclMap, oidcRoles, assumedRolesEnabled) IN
         /\ resolved' = got
         /\ IF Authorized(got)
            THEN /\ ctxACL' = [set |-> TRUE, acl |-> got.acl]
                 /\ nextCalled' = TRUE
                 /\ hpc' = "rewrite"
                 /\ UNCHANGED <<request, status, forwarded>>
            ELSE Unauthorized
    /\ UNCHANGED <<token, aclYaml, assumedRolesEnabled, pc, pending, aclMap, loadErr,
                   oidcRoles, compileVars>>

\* next.ServeHTTP(w, r) of rewriteRequestMiddleware: r goes to the upstream.
Forward(r) ==
    /\ forwarded' = r
    /\ request' = r
    /\ hpc' = "done"
    /\ UNCHANGED status

\* app.clientError(w, code) / app.serverError(w, r, err); return
Reject(code) ==
    /\ status' = code
    /\ hpc' = "done"
    /\ UNCHANGED <<request, forwarded>>

\* The request is sent on with its parameters as they came, whatever the ACL.
RewriteNeverNeeded(r, ctx) == TRUE

\* The requests rewriteRequestMiddleware sends on unmodified: not an API
\* request, or full access (middleware.go 168-187).
PassedUnmodified(r, ctx) == r.path # "api" \/ (ctx.set /\ ctx.acl.Fullaccess)

\* rewriteRequestMiddleware up to the ACL tests.
RewriteRequest ==
    /\ hpc = "rewrite"
    /\ IF request.path # "api" THEN Forward(request)
       ELSE IF ~ctxACL.set THEN Reject(StatusInternalServerError)
       ELSE IF PassedUnmodified(request, ctxACL) THEN Forward(request)
       ELSE hpc' = "parseForm" /\ UNCHANGED <<request, status, forwarded>>
    /\ UNCHANGED <<token, ctxACL, nextCalled, mainVars, compileVars>>

\* r.ParseForm()
ParseForm ==
    /\ hpc = "parseForm"
    /\ \/ hpc' = "getParams" /\ UNCHANGED <<request, status, forwarded>>
       \/ Reject(StatusBadRequest)
    /\ UNCHANGED <<token, ctxACL, nextCalled, mainVars, compileVars>>

\* app.prepareQueryParams(&getParams, acl), r.URL.RawQuery = newGetParams
RewriteGetParams ==
    /\ hpc = "getParams"
    /\ \/ LET r == [request EXCEPT !.get = prepareQueryParams(request.get, ctxACL.acl)]
          IN  IF r.method = "POST"
              THEN request' = r /\ hpc' = "postParams" /\ UNCHANGED <<status, forwarded>>
              ELSE Forward(r)
       \/ Reject(StatusBadRequest)
    /\ UNCHANGED <<token, ctxACL, nextCalled, mainVars, compileVars>>

\* app.prepareQueryParams(&r.PostForm, acl), r.Body = newBody
RewritePostParams ==
    /\ hpc = "postParams"
    /\ \/ Forward([request EXCEPT !.post = prepareQueryParams(request.post, ctxACL.acl)])
       \/ Reject(StatusBadRequest)
    /\ UNCHANGED <<token, ctxACL, nextCalled, mainVars, compileVars>>

\* The handlers have returned: the request and its context are dropped.
RequestServed ==
    /\ hpc = "done"
    /\ hpc' = "idle"
    /\ request' = NoRequest
    /\ token' = NoToken
    /\ ctxACL' = NoACL
    /\ status' = 0
    /\ nextCalled' = FALSE
    /\ forwarded' = NoRequest
    /\ oidcRoles' = <<>>
    /\ resolved' = NoResult
    /\ UNCHANGED <<aclYaml, assumedRolesEnabled, pc, pending, aclMap, loadErr, compileVars>>

NextHTTP ==
    \/ LoadReadError \/ LoadEntry \/ LoadReturn
    \/ ReceiveRequest
    \/ GetRawAccessToken \/ VerifyToken \/ ExtractClaims \/ AuthorizeRequest
    \/ RewriteRequest \/ ParseForm \/ RewriteGetParams \/ RewritePostParams
    \/ RequestServed

SpecHTTP == InitHTTP /\ [][NextHTTP]_vars

(***************************************************************************)
(* Properties of SpecHTTP                                                  *)
(***************************************************************************)
ViaOIDC == request.sent /\ request.entry = "oidc"

AllStepsSucceeded ==
    /\ token.rawAccessToken /\ token.accessToken /\ token.claims
    /\ resolved # NoResult
    /\ resolved.err = ErrNil

GetACLFailed == resolved # NoResult /\ resolved.err # ErrNil

\* C11: oidcModeMiddleware fails closed.  The next handler is called only
\* after token extraction, verification, claim extraction and getACL have
\* all succeeded, and then the context holds the ACL getACL returned; when a
\* step fails the response is 401, the next handler is not called and the
\* context holds no ACL.
C11_OIDCFailsClosed ==
    ViaOIDC =>
      /\ nextCalled => /\ AllStepsSucceeded
                       /\ ctxACL = [set |-> TRUE, acl |-> resolved.acl]
                       /\ status # StatusUnauthorized
      /\ ctxACL.set => nextCalled
      /\ GetACLFailed => status = StatusUnauthorized
      /\ (hpc = "done" /\ ~AllStepsSucceeded) => status = StatusUnauthorized
      /\ status = StatusUnauthorized => ~nextCalled /\ ctxACL = NoACL /\ forwarded = NoRequest

\* getACL is the step that failed: the three steps before it succeeded.
C11_Witness ==
    /\ ViaOIDC
    /\ token.rawAccessToken /\ token.accessToken /\ token.claims
    /\ GetACLFailed
    /\ status = StatusUnauthorized
    /\ hpc = "done"

\* The request is an API request and the ACL in its context is not full access.
Restricted == request.sent /\ request.path = "api" /\ ctxACL.set /\ ~ctxACL.acl.Fullaccess

Rewritten == prepareQueryParams(OriginalParams, ctxACL.acl)

\* C12: rewriteRequestMiddleware fails closed.  An API request whose ACL is
\* not full access reaches the next handler only with its GET parameters
\* (and, for POST, its form parameters) rewritten with the ACL; a failure of
\* form parsing or of prepareQueryParams is answered 400 and an API request
\* with no ACL in its context with a server error, and neither is forwarded.
C12_RewriteFailsClosed ==
    /\ (forwarded # NoRequest /\ Restricted) =>
          /\ forwarded.get = Rewritten
          /\ forwarded.method = "POST" => forwarded.post = Rewritten
          /\ status = 0
    /\ status = StatusBadRequest => Restricted /\ forwarded = NoRequest
    /\ (request.sent /\ request.path = "api" /\ ~ctxACL.set /\ hpc = "done"
          /\ request.entry = "rewrite") =>
          status = StatusInternalServerError
    /\ status = StatusInternalServerError =>
          request.path = "api" /\ ~ctxACL.set /\ forwarded = NoRequest
    /\ (forwarded # NoRequest /\ forwarded.path = "api"
          /\ (forwarded.get = OriginalParams \/ forwarded.post = OriginalParams)) =>
          \/ ctxACL.set /\ ctxACL.acl.Fullaccess
          \/ Restricted /\ forwarded.method = "GET" /\ forwarded.get = Rewritten

\* A POST with a restricted ACL went on with both parameter sets rewritten.
C12_Witness ==
    /\ Restricted
    /\ forwarded # NoRequest
    /\ forwarded.method = "POST"
    /\ forwarded.get = Rewritten
    /\ forwarded.post = Rewritten
    /\ ctxACL.acl.LabelFilter.Value = <<"a">>

(***************************************************************************)
(* Properties of SpecCompile: anchors                                      *)
(***************************************************************************)
\* The elements of raw, each with its anchors stripped.
StrippedElements(raw) ==
    LET buffer == toSlice(raw).buffer IN
    [i \in 1..Len(buffer) |-> TrimAnchors(buffer[i])]

\* C13: every ACL PrepareACL returns with IsRegexp true and Fullaccess false
\* has as LabelFilter.Value the `|`-join, and as RawACL the ", "-join, of the
\* pattern's elements with leading `^`/`(` and trailing `$`/`)` stripped from
\* each of them, for patterns of several elements as for those of one.
C13_AnchorsStripped ==
    (/\ cpc \in {"prepared", "reprepared"}
     /\ prepared.err = ErrNil
     /\ prepared.acl.LabelFilter.IsRegexp
     /\ ~prepared.acl.Fullaccess) =>
        /\ prepared.acl.LabelFilter.Value = Join(StrippedElements(rawACL), <<"|">>)
        /\ prepared.acl.RawACL = Join(StrippedElements(rawACL), <<",", " ">>)

(***************************************************************************)
(* Properties of Spec: assumed roles and combinations                      *)
(***************************************************************************)
AllUnknown == \A i \in 1..Len(oidcRoles) : ~IsKnown(oidcRoles[i])

\* A role name with no comma, no white space and no regexp metacharacter.
PlainName(role) ==
    /\ role # <<>>
    /\ \A i \in 1..Len(role) : role[i] \notin RegexpMeta \cup {","} /\ ~IsSpace(role[i])

\* C14 as stated: with assumed roles enabled a single unknown role u resolves
\* to the exact-match filter {Value: u, IsRegexp: false, Fullaccess: false};
\* its name is not split, not read as a regexp and not turned into full access.
C14_AssumedRoleIsLiteral ==
    (Resolved /\ assumedRolesEnabled /\ Len(oidcRoles) = 1 /\ AllUnknown) =>
        /\ resolved.err = ErrNil
        /\ ~resolved.acl.Fullaccess
        /\ resolved.acl.LabelFilter.Value = oidcRoles[1]
        /\ ~resolved.acl.LabelFilter.IsRegexp

\* C14 amended: with assumed roles enabled, a claim list of unknown roles
\* whose names are plain resolves to the ACL whose elements are those names,
\* one element each in claim order: the exact-match filter on u for a single
\* role u, the alternation of the names for several.
C14_PlainAssumedRoles ==
    (/\ Resolved /\ assumedRolesEnabled /\ oidcRoles # <<>> /\ AllUnknown
     /\ \A i \in 1..Len(oidcRoles) : PlainName(oidcRoles[i])) =>
        /\ resolved.err = ErrNil
        /\ resolved.acl =
             [Fullaccess  |-> FALSE,
              LabelFilter |-> [Label |-> "namespace",
                               Value |-> Join(oidcRoles, <<"|">>),
                               IsRegexp |-> Len(oidcRoles) > 1,
                               IsNegative |-> FALSE],
              RawACL      |-> Join(oidcRoles, <<",", " ">>)]

\* The single unknown role u resolved with assumed roles enabled.
C14_Witness ==
    /\ Resolved /\ assumedRolesEnabled
    /\ oidcRoles = << <<"u">> >>
    /\ ~IsKnown(<<"u">>)
    /\ resolved.err = ErrNil
    /\ resolved.acl.LabelFilter.Value = <<"u">>
    /\ ~resolved.acl.LabelFilter.IsRegexp

\* C15: with assumed roles disabled, getACL returns a full-access ACL only if
\* a listed role is a registry role whose stored ACL is full access; roles
\* that are each not full access never combine into full access.
C15_NoEscalationByCombination ==
    (Resolved /\ ~assumedRolesEnabled /\ resolved.err = ErrNil /\ resolved.acl.Fullaccess)
        => ListsFullaccessRole

====
